---- MODULE Spec2Model ----
(***************************************************************************)
(* Price Optimization API (src/app.py): lazy loading of the model artifact *)
(* and its metadata, the feature builder, the /predict handler and the     *)
(* /optimize grid scan.                                                    *)
(*                                                                         *)
(* Numbers.  Prices, competitor prices, freight and COGS are integers.     *)
(* A cell of a feature table is a record: a number num / (den_micro*1e-6)  *)
(* (so an integer x is x / (MICRO * 1e-6) and unit_price / (comp + 1e-6)   *)
(* is unit_price / ((comp * MICRO + 1) * 1e-6)), a string, or null.        *)
(* Quantities and profits are in tenths.                                   *)
(***************************************************************************)
EXTENDS Integers, Sequences, FiniteSets, TLC

VARIABLES
    modelFile,  \* the file at MODEL_PATH: "missing", "corrupt" or "ok"
    metaFile,   \* the file at METADATA_PATH: [state |-> ...] (content when "ok")
    COGS,       \* module constant read from the environment at import
    MODEL,      \* module global MODEL
    METADATA,   \* module global METADATA
    last,       \* the last request handled and everything it computed
    pc,         \* per thread: position inside a request
    loc,        \* per thread: the pair try_load_model returned to it
    ret,        \* per thread: the pair get_model_and_metadata returned
    didRead,    \* per thread: this call of get_model_and_metadata read the files
    afterFirst, \* per thread: this call began after a first call had returned
    firstPair,  \* the pair the first completed get_model_and_metadata returned
    status      \* per thread: status of the last response sent

vars == <<modelFile, metaFile, COGS, MODEL, METADATA, last,
          pc, loc, ret, didRead, afterFirst, firstPair, status>>

(***************************************************************************)
(* Bounds of the model.                                                    *)
(***************************************************************************)
MaxPrice == 5      \* min_price and max_price range over 1..MaxPrice
MaxStep == 2       \* step ranges over -MaxStep..MaxStep
NumThreads == 2    \* worker threads of the host

(***************************************************************************)
(* Values.                                                                 *)
(***************************************************************************)
MICRO == 1000000   \* 1 / 1e-6: den_micro counts units of 1e-6
MILLI == 1000      \* fixed-point scale of the grid computation
TENTHS == 10       \* quantities and log-predictions are in tenths

None == [none |-> TRUE]
Null == [kind |-> "null"]
Str(s) == [kind |-> "str", s |-> s]
Num(x) == [kind |-> "num", num |-> x, den_micro |-> MICRO]

\* x / (c + 1e-6), for a cell x holding an integer and an integer cell c
RatioEps(x, c) == [kind |-> "num", num |-> x.num, den_micro |-> c.num * MICRO + 1]

Max(a, b) == IF a >= b THEN a ELSE b

ModelArtifact == [artifact |-> "pipeline"]

(***************************************************************************)
(* Python dicts keep insertion order: keys is the order, val the mapping.  *)
(***************************************************************************)
SeqToSet(s) == {s[i] : i \in DOMAIN s}

DictGet(d, k, default) == IF k \in SeqToSet(d.keys) THEN d.val[k] ELSE default

DictSet(d, k, v) ==
    IF k \in SeqToSet(d.keys)
    THEN [keys |-> d.keys, val |-> [d.val EXCEPT ![k] = v]]
    ELSE [keys |-> Append(d.keys, k),
          val |-> [x \in SeqToSet(d.keys) \cup {k} |-> IF x = k THEN v ELSE d.val[x]]]

EmptyDict == [keys |-> <<>>, val |-> [x \in {} |-> Null]]

DictCopy(d) == [keys |-> d.keys, val |-> d.val]

\* req.dict(): the fields of PredictRequest in declaration order
ReqDict(req) ==
    [keys |-> <<"unit_price", "comp_1", "comp_2", "comp_3", "freight_price",
                "product_category_name">>,
     val |-> [k \in {"unit_price", "comp_1", "comp_2", "comp_3", "freight_price",
                     "product_category_name"} |->
                CASE k = "unit_price" -> Num(req.unit_price)
                  [] k = "comp_1" -> Num(req.comp_1)
                  [] k = "comp_2" -> Num(req.comp_2)
                  [] k = "comp_3" -> Num(req.comp_3)
                  [] k = "freight_price" -> Num(req.freight_price)
                  [] k = "product_category_name" -> req.product_category_name]]

\* pd.DataFrame(list of dicts): columns in the key order of the rows
DataFrame(rows) ==
    [columns |-> IF Len(rows) = 0 THEN <<>> ELSE rows[1].keys,
     rows |-> [i \in DOMAIN rows |-> rows[i].val]]

NoDf == [nodf |-> TRUE]

(***************************************************************************)
(* try_load_model and get_model_and_metadata.                              *)
(***************************************************************************)
FileMissing == [state |-> "missing"]
FileCorrupt == [state |-> "corrupt"]
FileOk(content) == [state |-> "ok", content |-> content]

\* One try block around both loads: an exception in joblib.load leaves the
\* block before the metadata file is looked at; an exception in json.load
\* leaves it after model was assigned.  The pair is <<model, metadata>>.
try_load_model(mf, mdf) ==
    IF mf = "corrupt"
    THEN <<None, None>>
    ELSE LET model == IF mf = "ok" THEN ModelArtifact ELSE None
         IN  CASE mdf.state = "missing" -> <<model, None>>
               [] mdf.state = "corrupt" -> <<model, None>>
               [] mdf.state = "ok" -> <<model, mdf.content>>

\* the test "MODEL is None or METADATA is None"
NotYetLoaded(m, md) == m = None \/ md = None

\* The whole of get_model_and_metadata in one step (one thread): the pair
\* it returns, which is also the new value of the globals.
get_model_and_metadata(m, md, mf, mdf) ==
    IF NotYetLoaded(m, md) THEN try_load_model(mf, mdf) ELSE <<m, md>>

(***************************************************************************)
(* Feature builder.                                                        *)
(***************************************************************************)
Truthy(md) == md # None /\ DOMAIN md # {}

RECURSIVE RowFromNumCols(_, _, _)
\* {k: p.get(k, 0) for k in num_cols}
RowFromNumCols(p, cols, i) ==
    IF i = 0 THEN EmptyDict
    ELSE DictSet(RowFromNumCols(p, cols, i - 1), cols[i], DictGet(p, cols[i], Num(0)))

RECURSIVE AddCatCols(_, _, _, _)
\* for c in cat_cols: row[c] = p.get(c)
AddCatCols(row, p, cols, i) ==
    IF i = 0 THEN row
    ELSE DictSet(AddCatCols(row, p, cols, i - 1), cols[i], DictGet(p, cols[i], Null))

make_input_df(payload, md) ==
    LET p0 == DictCopy(payload)
        p1 == DictSet(p0, "price_ratio_comp1", RatioEps(p0.val["unit_price"], p0.val["comp_1"]))
        p2 == DictSet(p1, "price_ratio_comp2", RatioEps(p1.val["unit_price"], p1.val["comp_2"]))
        p  == DictSet(p2, "price_ratio_comp3", RatioEps(p2.val["unit_price"], p2.val["comp_3"]))
    IN  IF Truthy(md) /\ "num_cols" \in DOMAIN md
        THEN LET num_cols == md.num_cols
                 cat_cols == IF "cat_cols" \in DOMAIN md THEN md.cat_cols ELSE <<>>
                 row == AddCatCols(RowFromNumCols(p, num_cols, Len(num_cols)),
                                   p, cat_cols, Len(cat_cols))
             IN  DataFrame(<<row>>)
        ELSE DataFrame(<<p>>)

(***************************************************************************)
(* The model's answers.  A log-prediction and a quantity are in tenths;    *)
(* expm1 is tabulated at the values the model is let to return, to one     *)
(* decimal: expm1(-1.0) = -0.6, expm1(0.7) = 1.0, expm1(1.1) = 2.0.        *)
(***************************************************************************)
LogPreds == {-1 * TENTHS, 7, 11}

expm1(lp) ==
    CASE lp = -1 * TENTHS -> -6
      [] lp = 7 -> 1 * TENTHS
      [] lp = 11 -> 2 * TENTHS

(***************************************************************************)
(* /predict                                                                *)
(***************************************************************************)
ModelMissing_Never(model) == FALSE

\* "if model is None: raise HTTPException(status_code=503, ...)"
ModelMissing(model) == model = None

Unavailable(ep, req, params) ==
    [endpoint |-> ep, req |-> req, params |-> params, status |-> 503,
     detail |-> "Model not loaded", df |-> NoDf, invoked |-> FALSE]

PredictQty(log_pred) == Max(0, expm1(log_pred))

PredictProfit_NoFloor(margin, qty) == margin * qty

PredictProfit(margin, qty) == Max(0, margin * qty)

NoParams == [none |-> TRUE]

\* The handler after get_model_and_metadata returned <<model, _>>; md is
\* the global METADATA, which make_input_df reads.
predict(model, md, cogs, req, log_pred) ==
    IF ModelMissing(model)
    THEN Unavailable("predict", req, NoParams)
    ELSE LET df == make_input_df(ReqDict(req), md)
             qty == PredictQty(log_pred)
             margin == req.unit_price - cogs - req.freight_price
             profit == PredictProfit(margin, qty)
         IN  [endpoint |-> "predict", req |-> req, params |-> NoParams,
              status |-> 200, df |-> df, invoked |-> TRUE,
              log_preds |-> <<log_pred>>, margin |-> margin,
              body |-> [predicted_qty |-> qty, predicted_profit |-> profit]]

(***************************************************************************)
(* /optimize                                                               *)
(***************************************************************************)
\* ceil(a / b) for integers a and b, b # 0
CeilDiv(a, b) == IF b > 0 THEN -((-a) \div b) ELSE -(a \div (-b))

\* The 1e-9 added to max_price, as one unit of the fixed-point scale MILLI:
\* start, max_price and step are whole numbers here, and for those every
\* tolerance strictly between 0 and 1 gives np.arange the same length.
TOL == 1

\* np.arange(start, max_price + 1e-9, step): ceil((stop - start) / step)
\* points start + i * step, none when that is not positive; step = 0 raises.
arange(start, max_price, step) ==
    IF step = 0
    THEN [raised |-> TRUE, values |-> <<>>]
    ELSE LET n == Max(0, CeilDiv(max_price * MILLI + TOL - start * MILLI, step * MILLI))
         IN  [raised |-> FALSE, values |-> [i \in 1..n |-> start + (i - 1) * step]]

GridLen(start, max_price, step) == Len(arange(start, max_price, step).values)

CandidateRow_BaseRatio(base, p) ==
    LET r0 == DictCopy(base)
        r1 == DictSet(r0, "unit_price", Num(p))
        r2 == DictSet(r1, "price_ratio_comp1", RatioEps(r0.val["unit_price"], r1.val["comp_1"]))
        r3 == DictSet(r2, "price_ratio_comp2", RatioEps(r0.val["unit_price"], r2.val["comp_2"]))
    IN  DictSet(r3, "price_ratio_comp3", RatioEps(r0.val["unit_price"], r3.val["comp_3"]))

\* the body of "for p in prices": the row appended for candidate p
CandidateRow(base, p) ==
    LET r0 == DictCopy(base)
        r1 == DictSet(r0, "unit_price", Num(p))
        r2 == DictSet(r1, "price_ratio_comp1", RatioEps(Num(p), r1.val["comp_1"]))
        r3 == DictSet(r2, "price_ratio_comp2", RatioEps(Num(p), r2.val["comp_2"]))
    IN  DictSet(r3, "price_ratio_comp3", RatioEps(Num(p), r3.val["comp_3"]))

OptimizeProfit_NoFloor(margin, qty) == margin * qty

\* np.where(margins > 0, margins * qtys, 0.0), one element
OptimizeProfit(margin, qty) == IF margin > 0 THEN margin * qty ELSE 0

ArgMax_Last(a) ==
    CHOOSE i \in DOMAIN a :
        /\ \A j \in DOMAIN a : a[j] <= a[i]
        /\ \A j \in DOMAIN a : j > i => a[j] < a[i]

\* np.argmax: the first index holding the maximum (indices from 1 here)
ArgMax(a) ==
    CHOOSE i \in DOMAIN a :
        /\ \A j \in DOMAIN a : a[j] <= a[i]
        /\ \A j \in DOMAIN a : j < i => a[j] < a[i]

\* The handler after get_model_and_metadata returned <<model, _>>.
\* log_preds is what model.predict(df) returns, one value per row.
optimize(model, cogs, req, min_price, max_price, step, log_preds) ==
    LET params == [min_price |-> min_price, max_price |-> max_price, step |-> step]
        base == ReqDict(req)
        grid == arange(min_price, max_price, step)
        prices == grid.values
        rows == [i \in DOMAIN prices |-> CandidateRow(base, prices[i])]
        df == DataFrame(rows)
        qtys == [i \in DOMAIN prices |-> Max(0, expm1(log_preds[i]))]
        margins == [i \in DOMAIN prices |->
                       df.rows[i]["unit_price"].num - cogs - df.rows[i]["freight_price"].num]
        profits == [i \in DOMAIN prices |-> OptimizeProfit(margins[i], qtys[i])]
        best_idx == ArgMax(profits)
    IN  IF ModelMissing(model)
        THEN Unavailable("optimize", req, params)
        ELSE IF grid.raised
        THEN \* np.arange raises on a zero step: nothing catches it
             [endpoint |-> "optimize", req |-> req, params |-> params, status |-> 500,
              detail |-> "np.arange raised", df |-> NoDf, invoked |-> FALSE]
        ELSE IF Len(prices) = 0
        THEN \* the frame has no columns: model.predict(df) raises, or
             \* df['unit_price'] raises KeyError after it; nothing catches it
             [endpoint |-> "optimize", req |-> req, params |-> params, status |-> 500,
              detail |-> "KeyError", df |-> df, invoked |-> TRUE]
        ELSE [endpoint |-> "optimize", req |-> req, params |-> params, status |-> 200,
              df |-> df, invoked |-> TRUE, base |-> base, prices |-> prices,
              log_preds |-> log_preds, qtys |-> qtys, margins |-> margins,
              profits |-> profits,
              body |-> [best_price |-> prices[best_idx],
                        best_profit |-> profits[best_idx],
                        best_qty |-> qtys[best_idx]]]

\* GET /healthz after get_model_and_metadata returned <<model, _>>
health(model) ==
    [endpoint |-> "healthz", status |-> 200, df |-> NoDf, invoked |-> FALSE,
     body |-> [status |-> "ok", model_loaded |-> model # None]]

(***************************************************************************)
(* Inputs.                                                                 *)
(***************************************************************************)
\* metadata.json as src/train.py writes it (the fields the service reads)
TrainedMetadata ==
    [num_cols |-> <<"unit_price", "comp_1", "comp_2", "comp_3", "freight_price",
                    "price_ratio_comp1", "price_ratio_comp2", "price_ratio_comp3">>,
     cat_cols |-> <<"product_category_name">>,
     target |-> "log1p(qty)"]

\* a metadata file of another schema: a column the request lacks, columns
\* of the request left out, a categorical column the request lacks
DriftedMetadata ==
    [num_cols |-> <<"price_ratio_comp2", "unit_price", "lag_price">>,
     cat_cols |-> <<"product_category_name", "region">>,
     target |-> "log1p(qty)"]

\* a metadata file that declares num_cols only
NumOnlyMetadata == [num_cols |-> <<"freight_price", "comp_3">>, target |-> "log1p(qty)"]

\* a metadata file that declares no columns
BareMetadata == [target |-> "log1p(qty)"]

MetadataContents == {TrainedMetadata, DriftedMetadata, NumOnlyMetadata, BareMetadata}

ModelFiles == {"missing", "corrupt", "ok"}
MetaFiles == {FileMissing, FileCorrupt} \cup {FileOk(c) : c \in MetadataContents}

CogsValues == {0, 50}

Requests ==
    [unit_price : {1, 4}, comp_1 : {0}, comp_2 : {1}, comp_3 : {3},
     freight_price : {0, 2}, product_category_name : {Null, Str("garden_tools")}]

Prices == 1..MaxPrice
Steps == (-MaxStep)..MaxStep

Threads == 1..NumThreads
Endpoints == {"healthz", "predict", "optimize"}
NoPair == <<None, None>>
Unset == [unset |-> TRUE]
NoCall == [endpoint |-> "none", status |-> 0, df |-> NoDf, invoked |-> FALSE]

(***************************************************************************)
(* Spec: the service in a single-threaded host.  Each action is one        *)
(* request handled from start to end, the lazy load included.              *)
(***************************************************************************)
Init ==
    /\ modelFile \in ModelFiles
    /\ metaFile \in MetaFiles
    /\ COGS \in CogsValues
    /\ MODEL = None
    /\ METADATA = None
    /\ last = NoCall
    /\ pc = [t \in Threads |-> "idle"]
    /\ loc = [t \in Threads |-> NoPair]
    /\ ret = [t \in Threads |-> NoPair]
    /\ didRead = [t \in Threads |-> FALSE]
    /\ afterFirst = [t \in Threads |-> FALSE]
    /\ firstPair = Unset
    /\ status = [t \in Threads |-> 0]

threadVars == <<pc, loc, ret, didRead, afterFirst, firstPair, status>>

\* The host takes the next request when the last response has been sent.
Health ==
    /\ last = NoCall
    /\ LET got == get_model_and_metadata(MODEL, METADATA, modelFile, metaFile)
       IN  /\ MODEL' = got[1]
           /\ METADATA' = got[2]
           /\ last' = health(got[1])
           /\ UNCHANGED <<modelFile, metaFile, COGS, threadVars>>

Predict ==
    /\ last = NoCall
    /\ \E req \in Requests, log_pred \in LogPreds :
        LET got == get_model_and_metadata(MODEL, METADATA, modelFile, metaFile)
        IN  /\ MODEL' = got[1]
            /\ METADATA' = got[2]
            /\ last' = predict(got[1], got[2], COGS, req, log_pred)
            /\ UNCHANGED <<modelFile, metaFile, COGS, threadVars>>

Optimize ==
    /\ last = NoCall
    /\ \E req \in Requests, min_price \in Prices, max_price \in Prices, step \in Steps :
        \E log_preds \in [1..GridLen(min_price, max_price, step) -> LogPreds] :
            LET got == get_model_and_metadata(MODEL, METADATA, modelFile, metaFile)
            IN  /\ MODEL' = got[1]
                /\ METADATA' = got[2]
                /\ last' = optimize(got[1], COGS, req, min_price, max_price, step, log_preds)
                /\ UNCHANGED <<modelFile, metaFile, COGS, threadVars>>

\* the response has been sent
Respond ==
    /\ last # NoCall
    /\ last' = NoCall
    /\ UNCHANGED <<modelFile, metaFile, COGS, MODEL, METADATA, threadVars>>

Next == Health \/ Predict \/ Optimize \/ Respond

Spec == Init /\ [][Next]_vars

(***************************************************************************)
(* SpecThreads: the service in a multi-threaded host (the handlers are     *)
(* plain functions, which the host runs on worker threads).  A request     *)
(* goes through get_model_and_metadata statement by statement, and the     *)
(* files may change between any two steps.                                 *)
(***************************************************************************)
ThreadMetaFiles == {FileMissing, FileCorrupt, FileOk(TrainedMetadata)}

InitThreads ==
    /\ modelFile \in ModelFiles
    /\ metaFile \in ThreadMetaFiles
    /\ COGS = 50
    /\ MODEL = None
    /\ METADATA = None
    /\ last = NoCall
    /\ pc = [t \in Threads |-> "idle"]
    /\ loc = [t \in Threads |-> NoPair]
    /\ ret = [t \in Threads |-> NoPair]
    /\ didRead = [t \in Threads |-> FALSE]
    /\ afterFirst = [t \in Threads |-> FALSE]
    /\ firstPair = Unset
    /\ status = [t \in Threads |-> 0]

\* a request reaches thread t, which enters get_model_and_metadata
Begin(t) ==
    /\ pc[t] = "idle"
    /\ pc' = [pc EXCEPT ![t] = "check"]
    /\ didRead' = [didRead EXCEPT ![t] = FALSE]
    /\ afterFirst' = [afterFirst EXCEPT ![t] = firstPair # Unset]
    /\ UNCHANGED <<modelFile, metaFile, COGS, MODEL, METADATA, last, loc, ret,
                   firstPair, status>>

\* "if MODEL is None or METADATA is None:"
Check(t) ==
    /\ pc[t] = "check"
    /\ pc' = [pc EXCEPT ![t] = IF NotYetLoaded(MODEL, METADATA) THEN "load" ELSE "return"]
    /\ UNCHANGED <<modelFile, metaFile, COGS, MODEL, METADATA, last, loc, ret,
                   didRead, afterFirst, firstPair, status>>

\* the call try_load_model(), which reads the files
Load(t) ==
    /\ pc[t] = "load"
    /\ loc' = [loc EXCEPT ![t] = try_load_model(modelFile, metaFile)]
    /\ didRead' = [didRead EXCEPT ![t] = TRUE]
    /\ pc' = [pc EXCEPT ![t] = "assign"]
    /\ UNCHANGED <<modelFile, metaFile, COGS, MODEL, METADATA, last, ret,
                   afterFirst, firstPair, status>>

\* "MODEL, METADATA = ..."
Assign(t) ==
    /\ pc[t] = "assign"
    /\ MODEL' = loc[t][1]
    /\ METADATA' = loc[t][2]
    /\ loc' = [loc EXCEPT ![t] = NoPair]
    /\ pc' = [pc EXCEPT ![t] = "return"]
    /\ UNCHANGED <<modelFile, metaFile, COGS, last, ret, didRead,
                   afterFirst, firstPair, status>>

\* "return MODEL, METADATA"
Return(t) ==
    /\ pc[t] = "return"
    /\ ret' = [ret EXCEPT ![t] = <<MODEL, METADATA>>]
    /\ firstPair' = IF firstPair = Unset THEN <<MODEL, METADATA>> ELSE firstPair
    /\ pc' = [pc EXCEPT ![t] = "handle"]
    /\ UNCHANGED <<modelFile, metaFile, COGS, MODEL, METADATA, last, loc,
                   didRead, afterFirst, status>>

\* The rest of the handler (of any of the three endpoints: each begins with
\* the same call), on the pair returned to it.
Finish(t) ==
    /\ pc[t] = "handle"
    /\ \E ep \in Endpoints, step \in {-1, 0, 1},
          req \in {r \in Requests : r.unit_price = 4 /\ r.freight_price = 0} :
          LET n == GridLen(1, MaxPrice, step)
              resp == CASE ep = "healthz" -> health(ret[t][1])
                        [] ep = "predict" ->
                             predict(ret[t][1], METADATA, COGS, req, 7)
                        [] ep = "optimize" ->
                             optimize(ret[t][1], COGS, req, 1, MaxPrice, step,
                                      [i \in 1..n |-> 7])
          IN  status' = [status EXCEPT ![t] = resp.status]
    /\ pc' = [pc EXCEPT ![t] = "respond"]
    /\ ret' = [ret EXCEPT ![t] = NoPair]
    /\ didRead' = [didRead EXCEPT ![t] = FALSE]
    /\ afterFirst' = [afterFirst EXCEPT ![t] = FALSE]
    /\ UNCHANGED <<modelFile, metaFile, COGS, MODEL, METADATA, last, loc, firstPair>>

\* the response leaves; thread t is free again
Sent(t) ==
    /\ pc[t] = "respond"
    /\ status' = [status EXCEPT ![t] = 0]
    /\ pc' = [pc EXCEPT ![t] = "idle"]
    /\ UNCHANGED <<modelFile, metaFile, COGS, MODEL, METADATA, last, loc, ret,
                   didRead, afterFirst, firstPair>>

\* the environment replaces, removes or damages a file
ChangeFiles ==
    /\ \E mf \in ModelFiles, mdf \in ThreadMetaFiles :
          /\ <<mf, mdf>> # <<modelFile, metaFile>>
          /\ modelFile' = mf
          /\ metaFile' = mdf
    /\ UNCHANGED <<COGS, MODEL, METADATA, last, threadVars>>

NextThreads ==
    \/ \E t \in Threads : Begin(t)
    \/ \E t \in Threads : Check(t)
    \/ \E t \in Threads : Load(t)
    \/ \E t \in Threads : Assign(t)
    \/ \E t \in Threads : Return(t)
    \/ \E t \in Threads : Finish(t)
    \/ \E t \in Threads : Sent(t)
    \/ ChangeFiles

SpecThreads == InitThreads /\ [][NextThreads]_vars

(***************************************************************************)
(* Properties of Spec.                                                     *)
(***************************************************************************)
IsPredictResult == last.endpoint = "predict" /\ last.status = 200
IsOptimizeResult == last.endpoint = "optimize" /\ last.status = 200

\* margin of a request priced at p
MarginAt(p) == p - COGS - last.req.freight_price

\* C1: whatever the model returns and whatever the sign of the margin,
\* predict returns predicted_qty >= 0 and predicted_profit >= 0, and a
\* negative margin gives predicted_profit = 0.
C1_PredictNonNegative ==
    IsPredictResult =>
        /\ last.body.predicted_qty >= 0
        /\ last.body.predicted_profit >= 0
        /\ MarginAt(last.req.unit_price) < 0 => last.body.predicted_profit = 0

\* a negative margin met a positive predicted quantity
C1_Witness ==
    /\ IsPredictResult
    /\ MarginAt(last.req.unit_price) < 0
    /\ last.body.predicted_qty > 0
    /\ last.body.predicted_profit = 0

\* C2: with the model absent after the load attempt, predict and optimize
\* answer 503 for every request and every query parameter, having built
\* no feature table and invoked no model.
C2_UnavailableWithoutModel ==
    (last.endpoint \in {"predict", "optimize"} /\ MODEL = None) =>
        /\ last.status = 503
        /\ last.df = NoDf
        /\ ~last.invoked

\* optimize, asked for a zero step while the model file cannot be loaded
C2_Witness ==
    /\ last.endpoint = "optimize"
    /\ modelFile = "corrupt"
    /\ MODEL = None
    /\ last.params.step = 0
    /\ last.status = 503

\* C3: optimize with the model present and a degenerate range
\* (min_price > max_price, or step <= 0) ends in an explicit failure of its
\* own: neither a result (200) nor an unhandled fault (500).
C3_DegenerateRangeRejected ==
    (/\ last.endpoint = "optimize"
     /\ MODEL # None
     /\ \/ last.params.min_price > last.params.max_price
        \/ last.params.step <= 0)
    => last.status \notin {200, 500}

\* floored profit of grid point i, from the request and the quantities
FlooredProfit(i) == Max(0, MarginAt(last.prices[i]) * last.qtys[i])

\* C4: over a non-empty ascending grid, best_price is the lowest grid point
\* whose floored profit is the maximum over the grid, and best_profit and
\* best_qty are the profit and quantity of that grid point.
C4_BestIsLowestMaximum ==
    (IsOptimizeResult /\ last.params.step > 0) =>
        \E i \in DOMAIN last.prices :
            /\ last.body.best_price = last.prices[i]
            /\ last.body.best_profit = FlooredProfit(i)
            /\ last.body.best_qty = last.qtys[i]
            /\ \A j \in DOMAIN last.prices :
                  /\ FlooredProfit(j) <= FlooredProfit(i)
                  /\ FlooredProfit(j) = FlooredProfit(i) => last.prices[i] <= last.prices[j]

\* the maximum is reached at two grid points, the higher of them with a
\* positive quantity, and at a third point the profit is lower
C4_Witness ==
    /\ IsOptimizeResult
    /\ last.params.step > 0
    /\ \E i, j, k \in DOMAIN last.prices :
          /\ i < j
          /\ FlooredProfit(i) = FlooredProfit(j)
          /\ \A m \in DOMAIN last.prices : FlooredProfit(m) <= FlooredProfit(i)
          /\ FlooredProfit(k) < FlooredProfit(i)
          /\ last.body.best_price = last.prices[i]

FlatQuantity == \A i, j \in DOMAIN last.log_preds : last.log_preds[i] = last.log_preds[j]

TopPrice == last.prices[Len(last.prices)]

\* C5 as stated: with the same predicted quantity for every candidate,
\* best_price is the highest grid price.
C5_FlatQuantityPicksHighest ==
    (IsOptimizeResult /\ last.params.step > 0 /\ FlatQuantity) =>
        last.body.best_price = TopPrice

\* C5 amended: with the same predicted quantity for every candidate of an
\* ascending grid, best_price is the highest grid price when that quantity
\* is positive and the highest grid price has a positive margin; otherwise
\* every floored profit is 0 and best_price is the lowest grid price.
C5_FlatQuantityAmended ==
    (IsOptimizeResult /\ last.params.step > 0 /\ FlatQuantity) =>
        IF expm1(last.log_preds[1]) > 0 /\ MarginAt(TopPrice) > 0
        THEN last.body.best_price = TopPrice
        ELSE last.body.best_price = last.prices[1] /\ last.body.best_profit = 0

\* min_price=1, max_price=5, step=2, a flat positive quantity and a
\* positive margin at 5: best_price = 5
C5_Witness ==
    /\ IsOptimizeResult
    /\ last.params = [min_price |-> 1, max_price |-> 5, step |-> 2]
    /\ FlatQuantity
    /\ last.qtys[1] > 0
    /\ MarginAt(5) > 0
    /\ last.body.best_price = 5

DeclaresNumCols == Truthy(METADATA) /\ "num_cols" \in DOMAIN METADATA

DeclaredCatCols == IF "cat_cols" \in DOMAIN METADATA THEN METADATA.cat_cols ELSE <<>>

\* the fields a feature row can take from a request: its own and the ratios
InputFields ==
    {"unit_price", "comp_1", "comp_2", "comp_3", "freight_price",
     "product_category_name", "price_ratio_comp1", "price_ratio_comp2",
     "price_ratio_comp3"}

\* the table has the declared columns in the declared order, with 0 in a
\* numeric column and null in a categorical column the input lacks
FollowsMetadata(df) ==
    /\ df.columns = METADATA.num_cols \o DeclaredCatCols
    /\ \A i \in DOMAIN df.rows :
          /\ \A k \in SeqToSet(METADATA.num_cols) \ InputFields : df.rows[i][k] = Num(0)
          /\ \A c \in SeqToSet(DeclaredCatCols) \ InputFields : df.rows[i][c] = Null

\* C8: when Metadata declares num_cols, every feature table handed to
\* the model, by predict and by optimize, has exactly the columns num_cols
\* followed by cat_cols, missing numeric columns 0, missing categorical
\* columns null, undeclared fields left out.
C8_TablesFollowMetadata ==
    ((IsPredictResult \/ IsOptimizeResult) /\ DeclaresNumCols) => FollowsMetadata(last.df)

\* the part of C8 about predict alone
PredictTableFollowsMetadata ==
    (IsPredictResult /\ DeclaresNumCols) => FollowsMetadata(last.df)

\* C9: try_load_model loads the two files independently: a failure on one
\* leaves only that value absent.  After a request, each global holds what
\* its own file gives.
C9_IndependentLoads ==
    last # NoCall =>
        /\ MODEL = IF modelFile = "ok" THEN ModelArtifact ELSE None
        /\ METADATA = IF metaFile.state = "ok" THEN metaFile.content ELSE None

\* the half of C9 that the code keeps: a model that loaded stays present
\* when the metadata file cannot be read
ModelSurvivesMetadataFailure ==
    (last # NoCall /\ modelFile = "ok") => MODEL = ModelArtifact

\* C10: in optimize the row of grid point p has unit_price = p and the
\* three ratios p / (comp_i + 1e-6); comp_1..3, freight_price and
\* product_category_name are the base request's in every row; the rows are
\* in grid order and the base request is not modified.
C10_CandidateRows ==
    IsOptimizeResult =>
        /\ Len(last.df.rows) = Len(last.prices)
        /\ last.base = ReqDict(last.req)
        /\ \A i \in DOMAIN last.df.rows :
              LET row == last.df.rows[i]
                  p == last.params.min_price + (i - 1) * last.params.step
              IN  /\ last.prices[i] = p
                  /\ row["unit_price"] = Num(p)
                  /\ row["price_ratio_comp1"] =
                        [kind |-> "num", num |-> p, den_micro |-> last.req.comp_1 * MICRO + 1]
                  /\ row["price_ratio_comp2"] =
                        [kind |-> "num", num |-> p, den_micro |-> last.req.comp_2 * MICRO + 1]
                  /\ row["price_ratio_comp3"] =
                        [kind |-> "num", num |-> p, den_micro |-> last.req.comp_3 * MICRO + 1]
                  /\ row["comp_1"] = Num(last.req.comp_1)
                  /\ row["comp_2"] = Num(last.req.comp_2)
                  /\ row["comp_3"] = Num(last.req.comp_3)
                  /\ row["freight_price"] = Num(last.req.freight_price)
                  /\ row["product_category_name"] = last.req.product_category_name

\* a grid of several points, none of them the request's own unit_price
C10_Witness ==
    /\ IsOptimizeResult
    /\ Len(last.prices) >= 3
    /\ \A i \in DOMAIN last.prices : last.prices[i] # last.req.unit_price

(***************************************************************************)
(* Properties of SpecThreads.                                              *)
(***************************************************************************)
\* C6: once a first call of get_model_and_metadata has returned a pair,
\* every call begun later returns that pair without reading the files.
C6_CachedAfterFirstReturn ==
    \A t \in Threads :
        (pc[t] = "handle" /\ afterFirst[t]) => (ret[t] = firstPair /\ ~didRead[t])

\* C7: no two threads are both past the "not yet loaded" test and
\* performing the load.
C7_LoadIsExclusive ==
    Cardinality({t \in Threads : pc[t] \in {"load", "assign"}}) <= 1
====
